---- MODULE Spec2Model ----
(***************************************************************************)
(* Internal Leave Request API (NestJS + TypeORM).                          *)
(*                                                                         *)
(* State: the two tables of the relational store (user, leave) with their  *)
(* id sequences, the bearer tokens that clients hold, the clock, the       *)
(* registrations that are between their two awaits, the configured token   *)
(* time-to-live, and the last request                                      *)
(* with the response it was given.                                         *)
(* One action per route handler; a handler that awaits twice on the store  *)
(* (register: hash, then save) is two steps.                               *)
(***************************************************************************)
EXTENDS Integers, Sequences, FiniteSets, TLC

VARIABLES users, leaves, nextUserId, nextLeaveId, tokens, now, inflight, req, resp,
          expiresIn

vars == <<users, leaves, nextUserId, nextLeaveId, tokens, now, inflight, req, resp,
          expiresIn>>

store == <<users, leaves, nextUserId, nextLeaveId>>

----------------------------------------------------------------------------
(* Bounds of the model.                                                    *)

MaxUsers == 3        \* rows the user id sequence hands out
MaxLeaves == 2       \* rows the leave id sequence hands out
MaxTokens == 2       \* tokens clients keep
MaxInflight == 2     \* registrations between hash and save

----------------------------------------------------------------------------
(* Program constants.                                                      *)

USER == "user"
ADMIN == "admin"
UserRole == {USER, ADMIN}

PENDING == "PENDING"
APPROVED == "APPROVED"
REJECTED == "REJECTED"

JWT_SECRET == "default-secret-key"
JWT_EXPIRATION == 604800
BCRYPT_ROUNDS == 10
MinPasswordLength == 6
MinNameLength == 2

NULL == 0            \* a column holding no value (ids start at 1)

----------------------------------------------------------------------------
(* Input sets.                                                             *)

\* an email is written as its parts around "@": "a@x.com" is <<"a", "x.com">>
Emails == {<<"a", "x.com">>, <<"b", "x.com">>}
BadEmail == <<"bad-email">>
AdminEmail == <<"admin", "x.com">>
Passwords == {"secret1", "wrongpass"}
ShortPassword == "123"
AdminPassword == "adminpass123"
Salts == {"s1"}

----------------------------------------------------------------------------
(* bcrypt: a salted one-way digest. The digest is a function of the salt   *)
(* and the plaintext; compare re-derives it with the salt the hash keeps.  *)

bcrypt_digest(password, salt) == <<"digest", salt, password>>

bcrypt_hash(password, rounds, salt) ==
    [rounds |-> rounds, salt |-> salt, digest |-> bcrypt_digest(password, salt)]

bcrypt_compare(password, hashed) ==
    hashed.digest = bcrypt_digest(password, hashed.salt)

----------------------------------------------------------------------------
(* JSON web tokens: payload + HMAC of the payload under the signing key.   *)

HMAC(secret, payload) == <<"hmac", secret, payload>>

NoToken == [kind |-> "none"]

\* JwtModule.registerAsync: secret and signOptions.expiresIn (the configured
\* JWT_EXPIRATION, 604800 when the environment sets none)
JwtService_sign(payload, t) ==
    LET full == [sub |-> payload.sub, userId |-> payload.userId, role |-> payload.role,
                 iat |-> t, exp |-> t + expiresIn]
    IN  [kind |-> "jwt", payload |-> full, sig |-> HMAC(JWT_SECRET, full)]

\* a plausible slip: the payload decoded without checking the signature
JwtStrategy_verify_decodeOnly(token, t) ==
    /\ token.kind = "jwt"
    /\ t < token.payload.exp

\* a plausible slip: a token still accepted at its expiry instant
JwtStrategy_verify_atExpiry(token, t) ==
    /\ token.kind = "jwt"
    /\ token.sig = HMAC(JWT_SECRET, token.payload)
    /\ t <= token.payload.exp

\* passport-jwt with ignoreExpiration: false and secretOrKey
JwtStrategy_verify(token, t) ==
    /\ token.kind = "jwt"
    /\ token.sig = HMAC(JWT_SECRET, token.payload)
    /\ t < token.payload.exp

\* the request user that validate() attaches
JwtStrategy_validate(payload) == [userId |-> payload.sub, role |-> payload.role]

\* what a client can do to a token it holds without the signing key:
\* rewrite the role claim under the old signature, or sign the rewritten
\* payload with a key of its own; and a bearer string that is no token
MalformedToken == [kind |-> "invalid-token"]
WrongSecret == "other-secret"
Escalated(token) == [token EXCEPT !.payload.role = ADMIN]
Resigned(token) == [token EXCEPT !.sig = HMAC(WrongSecret, token.payload)]

----------------------------------------------------------------------------
(* Exceptions and the global exception filter.                             *)

HttpException(status, message, error) ==
    [kind |-> "HttpException", status |-> status, message |-> message, error |-> error]

UnauthorizedException == HttpException(401, "Unauthorized", "")
ForbiddenException == HttpException(403, "Forbidden resource", "Forbidden")
BadRequestException(message) == HttpException(400, message, "Bad Request")

\* an error of the store driver: not an HttpException
QueryFailedError(message) ==
    [kind |-> "Error", status |-> 0, message |-> message, error |-> ""]

NoData == [kind |-> "none"]

AllExceptionsFilter_catch(exception) ==
    IF exception.kind = "HttpException"
    THEN [status |-> exception.status,
          message |-> IF exception.message # "" THEN exception.message
                      ELSE "Internal server error",
          errors |-> exception.error,
          data |-> NoData]
    ELSE [status |-> 500,
          message |-> exception.message,
          errors |-> "",
          data |-> NoData]

\* the value a handler returns, written out as JSON: every property of the
\* entity, since nothing installed in main.ts runs class-transformer over it
\* (the @Exclude of User.password is read by instanceToPlain only)
Reply(status, data) == [status |-> status, message |-> "", errors |-> "", data |-> data]

\* a request whose handler is between two awaits has no response yet
NoReply == Reply(0, NoData)

----------------------------------------------------------------------------
(* Routes, their guards and the roles they declare.                        *)

RegisterRoutes == {"POST /auth/register/user", "POST /auth/register/admin"}
LoginRoute == "POST /auth/login"
StatusRoutes == {"PUT /leaves/:id/approve", "PUT /leaves/:id/reject",
                 "PUT /leaves/:id/status"}
LeaveRoutes == {"POST /leaves", "GET /leaves", "GET /leaves/:id"} \cup StatusRoutes
UserRoutes == {"GET /users", "GET /users/:id", "PUT /users/:id", "DELETE /users/:id"}
ProtectedRoutes == LeaveRoutes \cup UserRoutes

\* a plausible slip: the class-level guard left off the listing route
UseGuards_listingOpen(route) ==
    IF route \in UserRoutes THEN <<"JwtAuthGuard", "RolesGuard">>
    ELSE IF route \in StatusRoutes THEN <<"JwtAuthGuard", "RolesGuard">>
    ELSE IF route \in LeaveRoutes \ {"GET /leaves"} THEN <<"JwtAuthGuard">>
    ELSE <<>>

\* @UseGuards of the controller class, then of the method
UseGuards(route) ==
    IF route \in UserRoutes THEN <<"JwtAuthGuard", "RolesGuard">>
    ELSE IF route \in StatusRoutes THEN <<"JwtAuthGuard", "RolesGuard">>
    ELSE IF route \in LeaveRoutes THEN <<"JwtAuthGuard">>
    ELSE <<>>

\* a plausible slip: @Roles left off the approve route
Roles_approveOpen(route) ==
    IF route \in UserRoutes \cup (StatusRoutes \ {"PUT /leaves/:id/approve"})
    THEN {ADMIN} ELSE {}

\* a plausible slip: @Roles left off the delete of a user
Roles_removeOpen(route) ==
    IF route \in (UserRoutes \ {"DELETE /users/:id"}) \cup StatusRoutes
    THEN {ADMIN} ELSE {}

\* a plausible slip: @Roles left off the update of a user
Roles_updateOpen(route) ==
    IF route \in (UserRoutes \ {"PUT /users/:id"}) \cup StatusRoutes
    THEN {ADMIN} ELSE {}

\* @Roles of the method
Roles(route) ==
    IF route \in UserRoutes \cup StatusRoutes THEN {ADMIN} ELSE {}

\* authentication stage: no bearer token, or one that fails verification,
\* is Unauthenticated
JwtAuthGuard(token, t) == JwtStrategy_verify(token, t)

\* authorization stage: the attached role against the declared role set
RolesGuard(requiredRoles, user) ==
    requiredRoles = {} \/ user.role \in requiredRoles

Uses(route, guard) == \E i \in DOMAIN UseGuards(route) : UseGuards(route)[i] = guard

Anonymous == [userId |-> NULL, role |-> ""]

\* a plausible slip: validate() looking the user up and attaching the stored role
RequestUser_stored(token, t) ==
    IF JwtStrategy_verify(token, t) /\ \E u \in users : u.id = token.payload.sub
    THEN [userId |-> token.payload.sub,
          role |-> (CHOOSE u \in users : u.id = token.payload.sub).role]
    ELSE Anonymous

RequestUser(token, t) ==
    IF JwtStrategy_verify(token, t) THEN JwtStrategy_validate(token.payload)
    ELSE Anonymous

\* the guards of a route in order; the first that refuses decides
CanActivate(route, token, t) ==
    IF Uses(route, "JwtAuthGuard") /\ ~JwtAuthGuard(token, t)
    THEN [ok |-> FALSE, exception |-> UnauthorizedException]
    ELSE IF Uses(route, "RolesGuard") /\ ~RolesGuard(Roles(route), RequestUser(token, t))
    THEN [ok |-> FALSE, exception |-> ForbiddenException]
    ELSE [ok |-> TRUE, exception |-> UnauthorizedException]

----------------------------------------------------------------------------
(* Validation pipes. Each returns the message of the failure, "" if none.  *)

Has(body, p) == p \in DOMAIN body

\* class-validator IsEmail, on an address given as its parts around "@"
IsEmail(e) == Len(e) = 2 /\ e[1] # "" /\ e[2] # ""

AuthRegisterDto_props(route) ==
    IF route = "POST /auth/register" THEN {"email", "password", "name", "role"}
    ELSE {"email", "password", "name"}

\* a plausible slip: @MinLength left off the password
AuthRegisterDto_validate_noMinLength(route, body) ==
    IF ~Has(body, "email") \/ ~IsEmail(body.email) THEN "email must be an email"
    ELSE IF ~Has(body, "password") THEN "password must be a string"
    ELSE IF ~Has(body, "name") THEN "name must be a string"
    ELSE IF Len(body.name) < MinNameLength THEN "Name must be at least 2 characters"
    ELSE ""

\* a plausible slip: @MinLength left off the name
AuthRegisterDto_validate_anyName(route, body) ==
    IF ~Has(body, "email") \/ ~IsEmail(body.email) THEN "email must be an email"
    ELSE IF ~Has(body, "password") THEN "password must be a string"
    ELSE IF Len(body.password) < MinPasswordLength
         THEN "Password must be at least 6 characters"
    ELSE IF ~Has(body, "name") THEN "name must be a string"
    ELSE ""

AuthRegisterDto_validate(route, body) ==
    IF ~Has(body, "email") \/ ~IsEmail(body.email) THEN "email must be an email"
    ELSE IF ~Has(body, "password") THEN "password must be a string"
    ELSE IF Len(body.password) < MinPasswordLength
         THEN "Password must be at least 6 characters"
    ELSE IF ~Has(body, "name") THEN "name must be a string"
    ELSE IF Len(body.name) < MinNameLength THEN "Name must be at least 2 characters"
    ELSE IF route = "POST /auth/register" /\ Has(body, "role") /\ body.role \notin UserRole
         THEN "role must be one of the following values: user, admin"
    ELSE ""

AuthLoginDto_props == {"email", "password"}

AuthLoginDto_validate(body) ==
    IF ~Has(body, "email") \/ ~IsEmail(body.email) THEN "email must be an email"
    ELSE IF ~Has(body, "password") THEN "password must be a string"
    ELSE ""

\* a plausible slip: the global pipe built without its whitelist options
GlobalValidationPipe_plain(props, body) == ""

\* app.useGlobalPipes(new ValidationPipe({ whitelist: true, forbidNonWhitelisted: true }))
GlobalValidationPipe(props, body) ==
    IF DOMAIN body \ props # {} THEN "property should not exist" ELSE ""

\* the global pipe, then the pipe of the @Body parameter
Pipes(props, dtoError, body) ==
    IF GlobalValidationPipe(props, body) # "" THEN GlobalValidationPipe(props, body)
    ELSE dtoError

----------------------------------------------------------------------------
(* The store.                                                              *)

\* a plausible slip: the email column declared without unique
UniqueEmail_none(rows, email) == TRUE

\* @Column({ unique: true }) email: the insert is refused when a row holds it
UniqueEmail(rows, email) == \A u \in rows : u.email # email

UserByEmail(email) == {u \in users : u.email = email}
UserById(id) == {u \in users : u.id = id}
LeaveById(id) == {l \in leaves : l.id = id}

\* the account the e2e suite writes straight into the store
SeedAdmin ==
    [id |-> 1, email |-> AdminEmail,
     password |-> bcrypt_hash(AdminPassword, BCRYPT_ROUNDS, "s1"),
     name |-> "Admin User", role |-> ADMIN]

Idle == [kind |-> "idle"]
FreeSlots == {s \in DOMAIN inflight : inflight[s] = Idle}

Init ==
    /\ users = {SeedAdmin}
    /\ leaves = {}
    /\ nextUserId = 2
    /\ nextLeaveId = 1
    /\ tokens = {}
    /\ now = 0
    /\ inflight = [s \in 1..MaxInflight |-> Idle]
    /\ req = [op |-> "none", token |-> NoToken, id |-> NULL, body |-> NoData]
    /\ resp = NoReply
    /\ expiresIn = JWT_EXPIRATION

Request(op, token, id, body) == [op |-> op, token |-> token, id |-> id, body |-> body]

----------------------------------------------------------------------------
(* Auth: register and login.                                               *)

RegisterBodies ==
    {[email |-> e, password |-> "secret1", name |-> "Al"] : e \in Emails}
    \cup {[email |-> BadEmail, password |-> "secret1", name |-> "A"],
          [email |-> <<"a", "x.com">>, password |-> ShortPassword, name |-> "Al"],
          [email |-> <<"a", "x.com">>, password |-> "12345", name |-> "Al"],
          [email |-> <<"a", "x.com">>, password |-> "secret1", name |-> "A"],
          [email |-> <<"a", "x.com">>, password |-> "secret1"],
          [email |-> <<"b", "x.com">>, password |-> "secret1", name |-> "Al",
           role |-> ADMIN]}

\* the role the controller passes for the route
RouteRole(route) == IF route = "POST /auth/register/admin" THEN ADMIN ELSE USER

\* AuthService.register up to the save: the entity userRepo.create builds.
\* The service takes (email, password, name); a fourth argument is dropped.
AuthService_register(email, password, name, role, salt) ==
    [email |-> email, password |-> bcrypt_hash(password, BCRYPT_ROUNDS, salt),
     name |-> name, role |-> USER]

\* POST /auth/register*: pipes, then bcrypt.hash (first await)
RegisterBegin(route, body) ==
    LET r == Request(route, NoToken, NULL, body)
        error == Pipes(AuthRegisterDto_props(route),
                       AuthRegisterDto_validate(route, body), body)
    IN  /\ req' = r
        /\ UNCHANGED expiresIn
        /\ IF error # ""
           THEN /\ resp' = AllExceptionsFilter_catch(BadRequestException(error))
                /\ UNCHANGED <<store, tokens, now, inflight>>
           ELSE /\ FreeSlots # {}
                /\ \E salt \in Salts :
                     LET s == CHOOSE x \in FreeSlots : \A y \in FreeSlots : x <= y
                         entity == AuthService_register(body.email, body.password,
                                                        body.name, RouteRole(route), salt)
                     IN  inflight' = [inflight EXCEPT ![s] =
                                        [kind |-> "register", request |-> r,
                                         entity |-> entity]]
                /\ resp' = NoReply
                /\ UNCHANGED <<store, tokens, now>>

\* userRepo.save (second await): one insert, refused by the unique constraint
RegisterSave(s) ==
    /\ inflight[s] # Idle
    /\ UNCHANGED expiresIn
    /\ LET e == inflight[s].entity
       IN  /\ req' = inflight[s].request
           /\ inflight' = [inflight EXCEPT ![s] = Idle]
           /\ IF UniqueEmail(users, e.email)
              THEN /\ nextUserId <= MaxUsers
                   /\ LET saved == [id |-> nextUserId, email |-> e.email,
                                    password |-> e.password, name |-> e.name,
                                    role |-> e.role]
                      IN  /\ users' = users \cup {saved}
                          /\ resp' = Reply(201, saved)
                   /\ nextUserId' = nextUserId + 1
                   /\ UNCHANGED <<leaves, nextLeaveId, tokens, now>>
              ELSE /\ resp' = AllExceptionsFilter_catch(QueryFailedError(
                                "duplicate key value violates unique constraint"))
                   /\ UNCHANGED <<store, tokens, now>>

LoginBodies ==
    {[email |-> <<"a", "x.com">>, password |-> p] : p \in Passwords}
    \cup {[email |-> <<"b", "x.com">>, password |-> "secret1"],
          [email |-> AdminEmail, password |-> AdminPassword],
          [email |-> BadEmail, password |-> "secret1"]}

\* a plausible slip: the role claim written as the default role
AuthService_login_defaultRole(user, t) ==
    JwtService_sign([sub |-> user.id, userId |-> user.id, role |-> USER], t)

\* AuthService.login: the token for a user found and verified
AuthService_login(user, t) ==
    JwtService_sign([sub |-> user.id, userId |-> user.id, role |-> user.role], t)

\* a plausible slip: a different error when no user holds the email
LoginFailure_reveal(found) ==
    IF found THEN UnauthorizedException
    ELSE HttpException(404, "User not found", "Not Found")

\* the error of a failed login, whether or not a user was found
LoginFailure(found) == UnauthorizedException

\* the response of POST /auth/login to a body, in the current state
LoginOutcome(body) ==
    LET error == Pipes(AuthLoginDto_props, AuthLoginDto_validate(body), body)
        found == IF error = "" THEN UserByEmail(body.email) ELSE {}
    IN  IF error # ""
        THEN AllExceptionsFilter_catch(BadRequestException(error))
        ELSE IF found = {} \/ \E u \in found : ~bcrypt_compare(body.password, u.password)
        THEN AllExceptionsFilter_catch(LoginFailure(found # {}))
        ELSE Reply(200, [access_token |->
                           AuthService_login(CHOOSE u \in found : TRUE, now)])

\* POST /auth/login
Login(body) ==
    LET out == LoginOutcome(body)
    IN  /\ req' = Request(LoginRoute, NoToken, NULL, body)
        /\ resp' = out
        /\ IF out.status = 200
           THEN /\ \/ out.data.access_token \in tokens
                   \/ Cardinality(tokens) < MaxTokens
                /\ tokens' = tokens \cup {out.data.access_token}
           ELSE UNCHANGED tokens
        /\ UNCHANGED <<store, now, inflight, expiresIn>>

----------------------------------------------------------------------------
(* Leaves.                                                                 *)

\* a calendar date "YYYY-MM-DD" is written <<year, month, day>>
IsDateString(d) == d[2] \in 1..12 /\ d[3] \in 1..31

CreateLeaveDto_props == {"type", "startDate", "endDate", "reason"}

CreateLeaveDto_validate(body) ==
    IF ~Has(body, "type") THEN "type must be a string"
    ELSE IF ~Has(body, "startDate") \/ ~IsDateString(body.startDate)
         THEN "startDate must be a valid ISO 8601 date string"
    ELSE IF ~Has(body, "endDate") \/ ~IsDateString(body.endDate)
         THEN "endDate must be a valid ISO 8601 date string"
    ELSE ""

UpdateLeaveStatusDto_props == {"status"}

UpdateLeaveStatusDto_validate(body) ==
    IF ~Has(body, "status") THEN "status must be a string" ELSE ""

NoReason == ""

\* a plausible slip: the owner read from a property validate() does not set
LeavesController_create_ownerless(body, user) ==
    [p \in DOMAIN body \cup {"user"} |->
        IF p = "user" THEN [id |-> NULL] ELSE body[p]]

\* leaveData = { ...body, user: { id: req.user.userId } }
LeavesController_create(body, user) ==
    [p \in DOMAIN body \cup {"user"} |->
        IF p = "user" THEN [id |-> user.userId] ELSE body[p]]

\* the row leaveRepo.save inserts; a column the data leaves out takes its default
LeavesService_create(data, id) ==
    [id |-> id, type |-> data.type, startDate |-> data.startDate,
     endDate |-> data.endDate,
     reason |-> IF Has(data, "reason") THEN data.reason ELSE NoReason,
     status |-> IF Has(data, "status") THEN data.status ELSE PENDING,
     userId |-> data.user.id]

\* a schema without the foreign key: every insert passes
ForeignKeyOk_none(userId) == TRUE

\* the foreign key of leave.user
ForeignKeyOk(userId) == userId = NULL \/ UserById(userId) # {}

\* find with relations: ['user']
WithUser(l) ==
    [leave |-> l,
     user |-> IF UserById(l.userId) = {} THEN NoData
              ELSE CHOOSE u \in UserById(l.userId) : TRUE]

\* the guards of the route, then the handler
Guarded(r, handler) ==
    /\ req' = r
    /\ UNCHANGED expiresIn
    /\ LET can == CanActivate(r.op, r.token, now)
       IN  IF ~can.ok
           THEN /\ resp' = AllExceptionsFilter_catch(can.exception)
                /\ UNCHANGED <<store, tokens, now, inflight>>
           ELSE handler

\* POST /leaves
LeavesCreate(token, body) ==
    LET r == Request("POST /leaves", token, NULL, body)
        error == Pipes(CreateLeaveDto_props, CreateLeaveDto_validate(body), body)
        row == LeavesService_create(
                   LeavesController_create(body, RequestUser(token, now)), nextLeaveId)
    IN  Guarded(r,
          IF error # ""
          THEN /\ resp' = AllExceptionsFilter_catch(BadRequestException(error))
               /\ UNCHANGED <<store, tokens, now, inflight>>
          ELSE IF ~ForeignKeyOk(row.userId)
          THEN /\ resp' = AllExceptionsFilter_catch(QueryFailedError(
                            "violates foreign key constraint"))
               /\ UNCHANGED <<store, tokens, now, inflight>>
          ELSE /\ nextLeaveId <= MaxLeaves
               /\ leaves' = leaves \cup {row}
               /\ nextLeaveId' = nextLeaveId + 1
               /\ resp' = Reply(201, row)
               /\ UNCHANGED <<users, nextUserId, tokens, now, inflight>>)

\* GET /leaves
LeavesFindAll(token) ==
    Guarded(Request("GET /leaves", token, NULL, NoData),
          /\ resp' = Reply(200, [items |-> {WithUser(l) : l \in leaves}])
          /\ UNCHANGED <<store, tokens, now, inflight>>)

\* GET /leaves/:id
LeavesFindOne(token, id) ==
    Guarded(Request("GET /leaves/:id", token, id, NoData),
          /\ resp' = Reply(200, IF LeaveById(id) = {} THEN NoData
                                ELSE WithUser(CHOOSE l \in LeaveById(id) : TRUE))
          /\ UNCHANGED <<store, tokens, now, inflight>>)

\* a plausible slip: the new status never written
LeavesService_updateStatus_lost(rows, id, status) == rows

\* a plausible slip: an UPDATE without its WHERE id
LeavesService_updateStatus_all(rows, id, status) ==
    {[l EXCEPT !.status = status] : l \in rows}

\* a plausible slip: the status read first and written only to a PENDING leave
LeavesService_updateStatus_ifPending(rows, id, status) ==
    {IF l.id = id /\ l.status = PENDING THEN [l EXCEPT !.status = status] ELSE l :
       l \in rows}

\* leaveRepo.update(id, { status }): one UPDATE ... WHERE id, no read before it
LeavesService_updateStatus(rows, id, status) ==
    {IF l.id = id THEN [l EXCEPT !.status = status] ELSE l : l \in rows}

SetStatus(r, status) ==
    /\ leaves' = LeavesService_updateStatus(leaves, r.id, status)
    /\ resp' = Reply(200, [affected |-> Cardinality(LeaveById(r.id))])
    /\ UNCHANGED <<users, nextUserId, nextLeaveId, tokens, now, inflight>>

\* PUT /leaves/:id/approve
LeavesApprove(token, id) ==
    LET r == Request("PUT /leaves/:id/approve", token, id, NoData)
    IN  Guarded(r, SetStatus(r, APPROVED))

\* PUT /leaves/:id/reject
LeavesReject(token, id) ==
    LET r == Request("PUT /leaves/:id/reject", token, id, NoData)
    IN  Guarded(r, SetStatus(r, REJECTED))

\* PUT /leaves/:id/status
LeavesUpdateStatus(token, id, body) ==
    LET r == Request("PUT /leaves/:id/status", token, id, body)
        error == Pipes(UpdateLeaveStatusDto_props, UpdateLeaveStatusDto_validate(body),
                       body)
    IN  Guarded(r,
          IF error # ""
          THEN /\ resp' = AllExceptionsFilter_catch(BadRequestException(error))
               /\ UNCHANGED <<store, tokens, now, inflight>>
          ELSE SetStatus(r, body.status))

----------------------------------------------------------------------------
(* Users.                                                                  *)

UpdateUserDto_props == {"name", "role"}

UpdateUserDto_validate(body) ==
    IF Has(body, "role") /\ body.role \notin UserRole
    THEN "role must be one of the following values: user, admin"
    ELSE ""

\* find with relations: ['leaves']
WithLeaves(u) == [user |-> u, leaves |-> {l \in leaves : l.userId = u.id}]

\* GET /users
UsersFindAll(token) ==
    Guarded(Request("GET /users", token, NULL, NoData),
          /\ resp' = Reply(200, [items |-> {WithLeaves(u) : u \in users}])
          /\ UNCHANGED <<store, tokens, now, inflight>>)

\* GET /users/:id
UsersFindOne(token, id) ==
    Guarded(Request("GET /users/:id", token, id, NoData),
          /\ resp' = Reply(200, IF UserById(id) = {} THEN NoData
                                ELSE WithLeaves(CHOOSE u \in UserById(id) : TRUE))
          /\ UNCHANGED <<store, tokens, now, inflight>>)

\* userRepo.update(id, data): one UPDATE ... WHERE id
UsersService_update(rows, id, data) ==
    {IF u.id = id
     THEN [u EXCEPT !.name = IF Has(data, "name") THEN data.name ELSE @,
                    !.role = IF Has(data, "role") THEN data.role ELSE @]
     ELSE u : u \in rows}

\* PUT /users/:id
UsersUpdate(token, id, body) ==
    LET error == Pipes(UpdateUserDto_props, UpdateUserDto_validate(body), body)
    IN  Guarded(Request("PUT /users/:id", token, id, body),
          IF error # ""
          THEN /\ resp' = AllExceptionsFilter_catch(BadRequestException(error))
               /\ UNCHANGED <<store, tokens, now, inflight>>
          ELSE /\ users' = UsersService_update(users, id, body)
               /\ resp' = Reply(200, [affected |-> Cardinality(UserById(id))])
               /\ UNCHANGED <<leaves, nextUserId, nextLeaveId, tokens, now, inflight>>)

\* a plausible slip: the relation declared without onDelete
Cascade_none(rows, userId) == rows

\* @ManyToOne(..., { onDelete: 'CASCADE' }): the leaves that go with a user
Cascade(rows, userId) == {l \in rows : l.userId # userId}

\* DELETE /users/:id: userRepo.delete(id)
UsersRemove(token, id) ==
    Guarded(Request("DELETE /users/:id", token, id, NoData),
          /\ users' = {u \in users : u.id # id}
          /\ leaves' = Cascade(leaves, id)
          /\ resp' = Reply(200, [affected |-> Cardinality(UserById(id))])
          /\ UNCHANGED <<nextUserId, nextLeaveId, tokens, now, inflight>>)

----------------------------------------------------------------------------
(* Inputs of the leave routes.                                             *)

ValidLeave == [type |-> "ANNUAL", startDate |-> <<2024, 3, 1>>, endDate |-> <<2024, 3, 5>>]

LeaveBodies ==
    {ValidLeave,
     [type |-> "ANNUAL", startDate |-> <<2024, 13, 1>>, endDate |-> <<2024, 3, 5>>],
     [type |-> "ANNUAL", startDate |-> <<2024, 3, 1>>, endDate |-> <<2024, 3, 5>>,
      status |-> APPROVED],
     [type |-> "ANNUAL", startDate |-> <<2024, 3, 1>>, endDate |-> <<2024, 3, 5>>,
      user |-> [id |-> 1]]}

StatusBodies ==
    {[status |-> s] : s \in {PENDING, APPROVED}}
    \cup {[reason |-> "no status"]}

\* the bearer tokens a client can present: none, the ones issued, and those
\* altered without the signing key
TokenInputs ==
    {NoToken} \cup tokens \cup {Escalated(t) : t \in tokens}

\* the ids handed out so far and the next one, which no row has
LeaveIds == 1..nextLeaveId

\* the store after one registration: the seeded admin and user a@x.com
SeedUser ==
    [id |-> 2, email |-> <<"a", "x.com">>,
     password |-> bcrypt_hash("secret1", BCRYPT_ROUNDS, "s1"),
     name |-> "Al", role |-> USER]

InitLeaves ==
    /\ users = {SeedAdmin, SeedUser}
    /\ leaves = {}
    /\ nextUserId = 3
    /\ nextLeaveId = 1
    /\ tokens = {}
    /\ now = 0
    /\ inflight = [s \in 1..MaxInflight |-> Idle]
    /\ req = [op |-> "none", token |-> NoToken, id |-> NULL, body |-> NoData]
    /\ resp = NoReply
    /\ expiresIn = JWT_EXPIRATION

NextLeaves ==
    \/ \E body \in LoginBodies : Login(body)
    \/ \E token \in TokenInputs, body \in LeaveBodies : LeavesCreate(token, body)
    \/ \E token \in TokenInputs : LeavesFindAll(token)
    \/ \E token \in TokenInputs, id \in LeaveIds : LeavesFindOne(token, id)
    \/ \E token \in TokenInputs, id \in LeaveIds : LeavesApprove(token, id)
    \/ \E token \in TokenInputs, id \in LeaveIds : LeavesReject(token, id)
    \/ \E token \in TokenInputs, id \in LeaveIds, body \in StatusBodies :
          LeavesUpdateStatus(token, id, body)

SpecLeaves == InitLeaves /\ [][NextLeaves]_vars

----------------------------------------------------------------------------
(* Every protected route, on a store with both users and admin changes.    *)

MaxGateLeaves == 1   \* leaves created under SpecGate

UserIds == 1..nextUserId

UserBodies == {[role |-> ADMIN], [role |-> "root"]}

GateTokens == {NoToken} \cup tokens

NextGate ==
    \/ \E body \in LoginBodies : Login(body)
    \/ \E token \in GateTokens :
          nextLeaveId <= MaxGateLeaves /\ LeavesCreate(token, ValidLeave)
    \/ \E token \in GateTokens : LeavesFindAll(token)
    \/ \E token \in GateTokens, id \in LeaveIds : LeavesFindOne(token, id)
    \/ \E token \in GateTokens, id \in LeaveIds : LeavesApprove(token, id)
    \/ \E token \in GateTokens, id \in LeaveIds : LeavesReject(token, id)
    \/ \E token \in GateTokens, id \in LeaveIds :
          LeavesUpdateStatus(token, id, [status |-> PENDING])
    \/ \E token \in GateTokens : UsersFindAll(token)
    \/ \E token \in GateTokens, id \in UserIds : UsersFindOne(token, id)
    \/ \E token \in GateTokens, id \in UserIds, body \in UserBodies :
          UsersUpdate(token, id, body)
    \/ \E token \in GateTokens, id \in UserIds : UsersRemove(token, id)

SpecGate == InitLeaves /\ [][NextGate]_vars

----------------------------------------------------------------------------
(* Tokens over time: every protected route, with issued and forged tokens, *)
(* under either configured time-to-live, while the clock advances.         *)

MaxTicks == 3        \* clock steps

\* the clock advances by half the default time-to-live
TickStep == JWT_EXPIRATION \div 2

Tick ==
    /\ now < MaxTicks * TickStep
    /\ now' = now + TickStep
    /\ UNCHANGED <<store, tokens, inflight, req, resp, expiresIn>>

\* JWT_EXPIRATION of the environment: unset (the default), or 0
InitToken ==
    /\ users = {SeedAdmin, SeedUser}
    /\ leaves = {}
    /\ nextUserId = 3
    /\ nextLeaveId = 1
    /\ tokens = {}
    /\ now = 0
    /\ inflight = [s \in 1..MaxInflight |-> Idle]
    /\ req = [op |-> "none", token |-> NoToken, id |-> NULL, body |-> NoData]
    /\ resp = NoReply
    /\ expiresIn \in {0, JWT_EXPIRATION}

\* the client is the registered non-admin user
TokenLogins == {[email |-> <<"a", "x.com">>, password |-> "secret1"]}

\* the bearer strings a client can present besides none
PresentedTokens ==
    {MalformedToken} \cup tokens
    \cup {Escalated(t) : t \in tokens} \cup {Resigned(t) : t \in tokens}

NextToken ==
    \/ Tick
    \/ \E body \in TokenLogins : Login(body)
    \/ \E token \in PresentedTokens :
          nextLeaveId <= MaxGateLeaves /\ LeavesCreate(token, ValidLeave)
    \/ \E token \in PresentedTokens : LeavesFindAll(token)
    \/ \E token \in PresentedTokens, id \in LeaveIds : LeavesFindOne(token, id)
    \/ \E token \in PresentedTokens, id \in LeaveIds : LeavesApprove(token, id)
    \/ \E token \in PresentedTokens, id \in LeaveIds : LeavesReject(token, id)
    \/ \E token \in PresentedTokens, id \in LeaveIds :
          LeavesUpdateStatus(token, id, [status |-> PENDING])
    \/ \E token \in PresentedTokens : UsersFindAll(token)
    \/ \E token \in PresentedTokens, id \in UserIds : UsersFindOne(token, id)
    \/ \E token \in PresentedTokens, id \in UserIds :
          UsersUpdate(token, id, [role |-> ADMIN])
    \/ \E token \in PresentedTokens, id \in UserIds : UsersRemove(token, id)

SpecToken == InitToken /\ [][NextToken]_vars

----------------------------------------------------------------------------
(* The life of a leave: created by the admin with any dates, then moved by *)
(* the three status routes, with any status string.                        *)

\* bodies of POST /leaves: the valid one, end before start, 30 February,
\* and a month that does not exist
DateBodies ==
    {ValidLeave,
     [type |-> "ANNUAL", startDate |-> <<2024, 3, 5>>, endDate |-> <<2024, 3, 1>>],
     [type |-> "ANNUAL", startDate |-> <<2024, 2, 30>>, endDate |-> <<2024, 3, 5>>],
     [type |-> "ANNUAL", startDate |-> <<2024, 13, 1>>, endDate |-> <<2024, 3, 5>>]}

\* the example value that UpdateLeaveStatusDto documents for status
LifecycleStatusBodies == {[status |-> "approved"]}

LifecycleLogins == {[email |-> AdminEmail, password |-> AdminPassword]}

NextLifecycle ==
    \/ \E body \in LifecycleLogins : Login(body)
    \/ \E token \in tokens, body \in DateBodies : LeavesCreate(token, body)
    \/ \E token \in tokens, id \in LeaveIds : LeavesFindOne(token, id)
    \/ \E token \in tokens, id \in LeaveIds : LeavesApprove(token, id)
    \/ \E token \in tokens, id \in LeaveIds : LeavesReject(token, id)
    \/ \E token \in tokens, id \in LeaveIds, body \in LifecycleStatusBodies :
          LeavesUpdateStatus(token, id, body)

SpecLifecycle == InitLeaves /\ [][NextLifecycle]_vars

----------------------------------------------------------------------------
(* Scenario: register, login, create a leave.                              *)

\* register bodies that differ in the display name only, and a second email
ScenarioBodies ==
    {[email |-> <<"a", "x.com">>, password |-> "secret1", name |-> "A"],
     [email |-> <<"a", "x.com">>, password |-> "secret1", name |-> "Al"],
     [email |-> <<"a", "x.com">>, password |-> "secret1"],
     [email |-> <<"b", "x.com">>, password |-> "secret1", name |-> "Al"]}

ScenarioLogins ==
    {[email |-> <<"a", "x.com">>, password |-> "secret1"],
     [email |-> <<"b", "x.com">>, password |-> "secret1"]}

NextScenario ==
    \/ \E body \in ScenarioBodies : RegisterBegin("POST /auth/register/user", body)
    \/ \E s \in 1..MaxInflight : RegisterSave(s)
    \/ \E body \in ScenarioLogins : Login(body)
    \/ \E token \in tokens : LeavesCreate(token, ValidLeave)

SpecScenario == Init /\ [][NextScenario]_vars

----------------------------------------------------------------------------
(* Tokens against a changing user table: both users log in, then the clock *)
(* advances while an admin token changes roles and deletes users.          *)

StatelessLogins ==
    {[email |-> AdminEmail, password |-> AdminPassword],
     [email |-> <<"a", "x.com">>, password |-> "secret1"]}

StatelessBodies == {[role |-> ADMIN], [role |-> USER]}

NextStateless ==
    \/ Tick
    \/ \E body \in StatelessLogins : now = 0 /\ Login(body)
    \/ \E token \in tokens : LeavesFindAll(token)
    \/ \E token \in tokens : UsersFindAll(token)
    \/ \E token \in tokens, id \in UserIds, body \in StatelessBodies :
          UsersUpdate(token, id, body)
    \/ \E token \in tokens, id \in UserIds : UsersRemove(token, id)

SpecStateless == InitLeaves /\ [][NextStateless]_vars

----------------------------------------------------------------------------
(* Approve and reject in a race. A handler's only access to the store is   *)
(* its one UPDATE, so a request is two steps: the guards, then the UPDATE; *)
(* requests that passed the guards wait in flight and apply in any order.  *)

\* the status that the route writes
RouteStatus(route) == IF route = "PUT /leaves/:id/approve" THEN APPROVED ELSE REJECTED

\* PUT /leaves/:id/approve | reject, up to the call of updateStatus
LeavesStatusBegin(route, token, id) ==
    LET r == Request(route, token, id, NoData)
    IN  Guarded(r,
          /\ FreeSlots # {}
          /\ LET s == CHOOSE x \in FreeSlots : \A y \in FreeSlots : x <= y
             IN  inflight' = [inflight EXCEPT ![s] =
                                [kind |-> "status", request |-> r,
                                 status |-> RouteStatus(route)]]
          /\ resp' = NoReply
          /\ UNCHANGED <<store, tokens, now>>)

\* the UPDATE of a request in flight, and its answer
LeavesStatusApply(s) ==
    /\ inflight[s].kind = "status"
    /\ req' = inflight[s].request
    /\ inflight' = [inflight EXCEPT ![s] = Idle]
    /\ leaves' = LeavesService_updateStatus(leaves, inflight[s].request.id,
                                            inflight[s].status)
    /\ resp' = Reply(200, [affected |-> Cardinality(LeaveById(inflight[s].request.id))])
    /\ UNCHANGED <<users, nextUserId, nextLeaveId, tokens, now, expiresIn>>

RaceRoutes == {"PUT /leaves/:id/approve", "PUT /leaves/:id/reject"}

NextRace ==
    \/ \E body \in LifecycleLogins : Login(body)
    \/ \E token \in tokens :
          nextLeaveId <= MaxGateLeaves /\ LeavesCreate(token, ValidLeave)
    \/ \E route \in RaceRoutes, token \in tokens, id \in LeaveIds :
          LeavesStatusBegin(route, token, id)
    \/ \E s \in 1..MaxInflight : LeavesStatusApply(s)

SpecRace == InitLeaves /\ [][NextRace]_vars

NextAuth ==
    \/ \E route \in RegisterRoutes, body \in RegisterBodies : RegisterBegin(route, body)
    \/ \E s \in 1..MaxInflight : RegisterSave(s)
    \/ \E body \in LoginBodies : Login(body)

SpecAuth == Init /\ [][NextAuth]_vars

----------------------------------------------------------------------------
(* Properties.                                                             *)

Verified(token) == JwtStrategy_verify(token, now)

SameStatuses(before, after) ==
    /\ {l.id : l \in before} = {l.id : l \in after}
    /\ \A l \in before, m \in after : l.id = m.id => l.status = m.status

WellFormed(r) == r.op = "PUT /leaves/:id/status" => Has(r.body, "status")

\* C1: role gate on the leave-status routes. A request to approve, reject or
\* status with a verified token whose role is not admin is answered 403,
\* whether or not a leave has the id, and no leave changes status; with a
\* verified admin token, on the id of a stored leave, a request whose body
\* passes validation is answered 200.
C1_RoleGate ==
    [][ (req'.op \in StatusRoutes /\ JwtStrategy_verify(req'.token, now')) =>
          IF req'.token.payload.role # ADMIN
          THEN resp'.status = 403 /\ leaves' = leaves /\ SameStatuses(leaves, leaves')
          ELSE (LeaveById(req'.id) # {} /\ WellFormed(req')) => resp'.status = 200
      ]_vars

\* a non-admin was refused on the id of a stored leave, and an id of none
C1_Witness ==
    /\ req.op \in StatusRoutes
    /\ Verified(req.token)
    /\ req.token.payload.role = USER
    /\ resp.status = 403
    /\ LeaveById(req.id) # {}

\* C2: a request to any /leaves or /users route that carries no bearer
\* token is answered 401, and neither the user store nor the leave store
\* changes.
C2_NoTokenUnauthenticated ==
    [][ (req'.op \in ProtectedRoutes /\ req'.token = NoToken) =>
          resp'.status = 401 /\ users' = users /\ leaves' = leaves
      ]_vars

\* a delete of a stored user that owns a leave, sent without a token
C2_Witness ==
    /\ req.op = "DELETE /users/:id"
    /\ req.token = NoToken
    /\ resp.status = 401
    /\ UserById(req.id) # {}
    /\ \E l \in leaves : l.userId = req.id

\* C3: a create adds at most one leave, and the leave it adds is owned by
\* the subject of the verified token, whatever the body holds.
C3_OwnerIsRequester ==
    [][ req'.op = "POST /leaves" =>
          /\ leaves \subseteq leaves'
          /\ Cardinality(leaves' \ leaves) <= 1
          /\ resp'.status = 201 => leaves' # leaves
          /\ \A l \in leaves' \ leaves :
               /\ JwtStrategy_verify(req'.token, now')
               /\ l.userId = req'.token.payload.sub
      ]_vars

\* the non-admin user created a leave, which it owns
C3_Witness ==
    /\ req.op = "POST /leaves"
    /\ resp.status = 201
    /\ resp.data.userId = 2
    /\ req.token.payload.sub = 2
    /\ resp.data \in leaves

\* C4: the leave a successful create persists has status PENDING at that
\* moment, whatever the body holds.
C4_CreatedPending ==
    [][ req'.op = "POST /leaves" =>
          /\ \A l \in leaves' \ leaves : l.status = PENDING
          /\ resp'.status = 201 =>
               \E l \in leaves' \ leaves : l.id = resp'.data.id /\ resp'.data.status = PENDING
      ]_vars

\* a leave was created and is stored as PENDING
C4_Witness ==
    /\ req.op = "POST /leaves"
    /\ resp.status = 201
    /\ \E l \in leaves : l.id = resp.data.id /\ l.status = PENDING

\* C5: status terminality. A leave that is APPROVED or REJECTED is not
\* PENDING in the next state.
C5_Terminal ==
    [][ \A l \in leaves, m \in leaves' :
          (l.id = m.id /\ l.status \in {APPROVED, REJECTED}) => m.status # PENDING
      ]_vars

\* C6: PENDING is the only status a transition leaves. An APPROVED leave
\* is not REJECTED in the next state, nor a REJECTED one APPROVED.
C6_OnlyFromPending ==
    [][ \A l \in leaves, m \in leaves' :
          l.id = m.id =>
            /\ l.status = APPROVED => m.status # REJECTED
            /\ l.status = REJECTED => m.status # APPROVED
      ]_vars

\* C7: no two stored users have the same email, however registrations
\* with one email interleave.
C7_UniqueEmail ==
    \A u1, u2 \in users : u1.email = u2.email => u1.id = u2.id

\* two registrations with one email passed validation together, and one of
\* them has been saved while the other still waits for its insert
C7_Witness ==
    \E s \in DOMAIN inflight :
        /\ inflight[s] # Idle
        /\ \E u \in users : u.email = inflight[s].entity.email /\ u.id > 1

\* C8: a registration whose email a stored user holds is answered 400 or
\* 409, and the user store is unchanged.
C8_DuplicateIsClientError ==
    [][ ( /\ req'.op \in RegisterRoutes
          /\ resp'.status # 0
          /\ AuthRegisterDto_validate(req'.op, req'.body) = ""
          /\ ~UniqueEmail(users, req'.body.email) ) =>
          resp'.status \in {400, 409} /\ users' = users
      ]_vars

\* C9: login with an email no user holds and login with a held email and a
\* wrong password are answered alike: 401, same message, same shape.
C9_LoginFailuresAlike ==
    \A b1, b2 \in LoginBodies :
        ( /\ AuthLoginDto_validate(b1) = "" /\ AuthLoginDto_validate(b2) = ""
          /\ UserByEmail(b1.email) = {}
          /\ \E u \in UserByEmail(b2.email) : ~bcrypt_compare(b2.password, u.password) ) =>
        /\ LoginOutcome(b1).status = 401
        /\ LoginOutcome(b1) = LoginOutcome(b2)

\* a login with a held email and a wrong password was refused while
\* another email is held by no user
C9_Witness ==
    /\ req.op = LoginRoute
    /\ resp.status = 401
    /\ \E u \in UserByEmail(req.body.email) : ~bcrypt_compare(req.body.password, u.password)
    /\ \E b \in LoginBodies : AuthLoginDto_validate(b) = "" /\ UserByEmail(b.email) = {}

Credentials(r) == [email |-> r.body.email, password |-> r.body.password]

RoundTrip(u, out) ==
    /\ out.status = 200
    /\ JwtStrategy_verify(out.data.access_token, now)
    /\ JwtStrategy_validate(out.data.access_token.payload).userId = u.id
    /\ JwtStrategy_validate(out.data.access_token.payload).role = u.role

\* C10: round trip. After a successful register, login with the same
\* credentials gives a token that verifies, with the id of the user the
\* register created and the role stored for it; the same for every stored
\* user and the password it was hashed from.
C10_RoundTrip ==
    /\ (req.op \in RegisterRoutes /\ resp.status = 201) =>
          /\ resp.data \in users
          /\ RoundTrip(resp.data, LoginOutcome(Credentials(req)))
    /\ \A u \in users, p \in Passwords \cup {AdminPassword} :
          bcrypt_compare(p, u.password) =>
             RoundTrip(u, LoginOutcome([email |-> u.email, password |-> p]))

\* a user registered, then logged in with the same credentials
C10_Witness ==
    /\ req.op = LoginRoute
    /\ resp.status = 200
    /\ \E u \in users :
          /\ u.id > 1
          /\ u.email = req.body.email
          /\ resp.data.access_token.payload.sub = u.id
          /\ resp.data.access_token.payload.role = u.role

\* C11: a request to a protected route with a bearer token that this
\* service did not issue (no token at all is C2) - a string that is no token,
\* an issued token with a rewritten payload, or one signed with another
\* key - is answered 401 and changes neither store.
C11_ForgedRejected ==
    [][ (req'.op \in ProtectedRoutes /\ req'.token \notin tokens' \cup {NoToken}) =>
          resp'.status = 401 /\ store' = store
      ]_vars

\* a token that still verifies, with its role rewritten to admin, was
\* refused on the delete of a stored user
C11_Witness ==
    /\ req.op = "DELETE /users/:id"
    /\ resp.status = 401
    /\ UserById(req.id) # {}
    /\ \E t \in tokens :
          /\ Verified(t)
          /\ req.token = Escalated(t)
          /\ req.token # t

\* C12: the expiry of an issued token is its issue time plus the configured
\* time-to-live (7 days when none is configured). A request with an issued
\* token is authenticated exactly while the clock is strictly before the
\* expiry: at the expiry instant and after it the answer is 401 and no store
\* changes, and with time-to-live 0 every request is answered 401.
C12_Expiry ==
    [][ (now' = now /\ req'.op \in ProtectedRoutes /\ req'.token \in tokens') =>
          LET claims == req'.token.payload
          IN  /\ JWT_EXPIRATION = 7 * 24 * 60 * 60
              /\ claims.exp = claims.iat + expiresIn
              /\ now < claims.exp => resp'.status # 401
              /\ now >= claims.exp => resp'.status = 401 /\ store' = store
              /\ expiresIn = 0 => resp'.status = 401
      ]_vars

\* a token of the default time-to-live was refused at its expiry instant
C12_Witness ==
    /\ req.op \in ProtectedRoutes
    /\ req.token \in tokens
    /\ expiresIn = JWT_EXPIRATION
    /\ now = req.token.payload.exp
    /\ resp.status = 401

\* C13: a request to GET /users, GET /users/:id, PUT /users/:id or
\* DELETE /users/:id with a verified token whose role is not admin is
\* answered 403, whether or not a user has the id, and leaves the user store
\* and the leave store unchanged.
C13_UsersAdminOnly ==
    [][ ( /\ req'.op \in UserRoutes
          /\ JwtStrategy_verify(req'.token, now')
          /\ req'.token.payload.role # ADMIN ) =>
          resp'.status = 403 /\ users' = users /\ leaves' = leaves
      ]_vars

\* a non-admin was refused the delete of a stored user that owns a leave,
\* while an id that no user has is among the ids requests can name
C13_Witness ==
    /\ req.op = "DELETE /users/:id"
    /\ Verified(req.token)
    /\ req.token.payload.role = USER
    /\ resp.status = 403
    /\ UserById(req.id) # {}
    /\ \E l \in leaves : l.userId = req.id
    /\ \E id \in UserIds : UserById(id) = {}

\* C14: referential integrity. In every reachable state the owner of every
\* stored leave is a stored user; in particular the state after the delete
\* of a user holds no leave of that user.
C14_OwnerStored ==
    \A l \in leaves : UserById(l.userId) # {}

\* a stored user was deleted, and the leaves created before are gone with it
C14_Witness ==
    /\ req.op = "DELETE /users/:id"
    /\ resp.status = 200
    /\ resp.data.affected = 1
    /\ UserById(req.id) = {}
    /\ nextLeaveId > 1
    /\ leaves = {}

\* C15: the answer to GET /leaves holds every stored leave when the role of
\* the caller is admin, and otherwise exactly the leaves that the caller
\* owns: never a leave of another user.
C15_ListingScoped ==
    (req.op = "GET /leaves" /\ resp.status = 200) =>
        LET caller == JwtStrategy_validate(req.token.payload)
            listed == {item.leave : item \in resp.data.items}
        IN  IF caller.role = ADMIN
            THEN listed = leaves
            ELSE listed = {l \in leaves : l.userId = caller.userId}

\* C16: a registration whose email is not an email address, or whose
\* password has fewer than 6 characters, is answered 400; it adds no user
\* and starts no insert.
C16_RegisterValidation ==
    [][ ( /\ req'.op \in RegisterRoutes
          /\ Has(req'.body, "email") /\ Has(req'.body, "password")
          /\ ~IsEmail(req'.body.email) \/ Len(req'.body.password) < 6 ) =>
          resp'.status = 400 /\ users' = users /\ inflight' = inflight
      ]_vars

\* a registration with a password of 5 characters was refused
C16_Witness ==
    /\ req.op \in RegisterRoutes
    /\ resp.status = 400
    /\ IsEmail(req.body.email)
    /\ Len(req.body.password) = 5
    /\ Len(req.body.name) >= MinNameLength

\* C17: no response body holds the password hash of a user: not the record
\* that register returns, not the users of GET /users and GET /users/:id,
\* not the owner embedded in the leaves of GET /leaves and GET /leaves/:id.
C17_NoPasswordInResponse ==
    /\ (req.op \in RegisterRoutes /\ resp.status = 201) =>
          ~Has(resp.data, "password")
    /\ (req.op \in {"GET /users", "GET /leaves"} /\ resp.status = 200) =>
          \A item \in resp.data.items : ~Has(item.user, "password")
    /\ (req.op \in {"GET /users/:id", "GET /leaves/:id"} /\ resp.status = 200) =>
          (Has(resp.data, "user") => ~Has(resp.data.user, "password"))

\* C18: the user that a registration creates is stored, and returned, with
\* the role of the route: user for POST /auth/register/user, admin for
\* POST /auth/register/admin.
C18_RegisterRole ==
    (req.op \in RegisterRoutes /\ resp.status = 201) =>
        /\ resp.data.role = RouteRole(req.op)
        /\ \E u \in users : u.id = resp.data.id /\ u.role = RouteRole(req.op)

\* C19: GET /leaves/:id with a verified token and an id that no stored
\* leave has is answered 404, not a success with an empty body.
C19_FindOneNotFound ==
    (req.op = "GET /leaves/:id" /\ Verified(req.token) /\ LeaveById(req.id) = {}) =>
        resp.status = 404

\* C20: approve, reject or status update with a verified admin token and a
\* valid body, on an id that no stored leave has, is answered 404 and
\* changes no leave.
C20_StatusNotFound ==
    [][ ( /\ req'.op \in StatusRoutes
          /\ JwtStrategy_verify(req'.token, now')
          /\ req'.token.payload.role = ADMIN
          /\ WellFormed(req')
          /\ \A l \in leaves : l.id # req'.id ) =>
          resp'.status = 404 /\ leaves' = leaves
      ]_vars

\* the calendar, for stating claims about dates
DaysInMonth(y, m) ==
    IF m \in {4, 6, 9, 11} THEN 30
    ELSE IF m = 2
         THEN (IF y % 4 = 0 /\ (y % 100 # 0 \/ y % 400 = 0) THEN 29 ELSE 28)
    ELSE 31

IsCalendarDate(d) == d[2] \in 1..12 /\ d[3] \in 1..DaysInMonth(d[1], d[2])

DateLE(a, b) ==
    \/ a[1] < b[1]
    \/ a[1] = b[1] /\ a[2] < b[2]
    \/ a[1] = b[1] /\ a[2] = b[2] /\ a[3] <= b[3]

\* C21: a create whose startDate or endDate is not a calendar date, or whose
\* startDate is after its endDate, is answered 400 and stores no leave;
\* every stored leave has startDate <= endDate.
C21_DatesValidated ==
    [][ /\ ( /\ req'.op = "POST /leaves"
             /\ JwtStrategy_verify(req'.token, now')
             /\ Has(req'.body, "startDate") /\ Has(req'.body, "endDate")
             /\ \/ ~IsCalendarDate(req'.body.startDate)
                \/ ~IsCalendarDate(req'.body.endDate)
                \/ ~DateLE(req'.body.startDate, req'.body.endDate) ) =>
             resp'.status = 400 /\ leaves' = leaves
        /\ \A l \in leaves' : DateLE(l.startDate, l.endDate)
      ]_vars

\* C26: in every reachable state the status of every stored leave is one of
\* PENDING, APPROVED, REJECTED, whatever bodies the create and status
\* requests carried.
C26_StatusInEnum ==
    \A l \in leaves : l.status \in {PENDING, APPROVED, REJECTED}

\* C22: the stored role of an existing user changes only in a step that is
\* a PUT /users/:id on that user with a verified token whose role is admin:
\* no request without a token, and none with a non-admin token, changes
\* the role of any user, the caller's own included.
C22_RoleChangeByAdminOnly ==
    [][ \A u \in users, v \in users' :
          (u.id = v.id /\ u.role # v.role) =>
             /\ req'.op = "PUT /users/:id"
             /\ req'.id = u.id
             /\ JwtStrategy_verify(req'.token, now')
             /\ req'.token.payload.role = ADMIN
      ]_vars

\* an admin made the registered user an admin
C22_Witness ==
    /\ req.op = "PUT /users/:id"
    /\ req.id = SeedUser.id
    /\ resp.status = 200
    /\ req.token.payload.role = ADMIN
    /\ \E u \in users : u.id = SeedUser.id /\ u.role = ADMIN

\* C23: a fault that is no HTTP error is answered 500 with the fixed
\* message "Internal server error": the body holds no text of the
\* underlying error.
C23_GenericFault ==
    /\ resp.status \in {0, 200, 201, 400, 401, 403, 404, 500}
    /\ resp.status = 500 =>
          /\ resp.message = "Internal server error"
          /\ resp.errors = ""
          /\ resp.data = NoData

\* a register request whose email and password pass validation and whose
\* email no stored user holds
Registrable(r) ==
    /\ r.op \in RegisterRoutes
    /\ IsEmail(r.body.email)
    /\ Len(r.body.password) >= 6
    /\ UniqueEmail(users, r.body.email)

NameGiven(r) == Has(r.body, "name") /\ Len(r.body.name) >= 2

Requested(op) == IF op = "PUT /leaves/:id/approve" THEN APPROVED ELSE REJECTED

\* C25: approve (reject) with a verified admin token on a stored PENDING
\* leave is answered 200 and leaves that leave APPROVED (REJECTED); a
\* GET /leaves/:id answers with the leave as stored, so with the new status.
C25_ApproveSets ==
    [][ /\ ( /\ req'.op \in {"PUT /leaves/:id/approve", "PUT /leaves/:id/reject"}
             /\ JwtStrategy_verify(req'.token, now')
             /\ req'.token.payload.role = ADMIN
             /\ \E l \in leaves : l.id = req'.id /\ l.status = PENDING ) =>
              /\ resp'.status = 200
              /\ \E m \in leaves' : m.id = req'.id /\ m.status = Requested(req'.op)
        /\ ( /\ req'.op = "GET /leaves/:id"
             /\ resp'.status = 200
             /\ Has(resp'.data, "leave") ) =>
              /\ resp'.data.leave \in leaves'
              /\ resp'.data.leave.id = req'.id
      ]_vars

\* a GET answered with a leave that an approve had set to APPROVED
C25_Witness ==
    /\ req.op = "GET /leaves/:id"
    /\ resp.status = 200
    /\ Has(resp.data, "leave")
    /\ resp.data.leave.status = APPROVED

\* C28: a status operation on a leave changes nothing but the status of
\* that leave: its owner, type, dates and reason, every other leave, and
\* every user stay as they were; the admin does not become the owner.
C28_StatusFrame ==
    [][ req'.op \in StatusRoutes =>
          /\ users' = users
          /\ {l.id : l \in leaves'} = {l.id : l \in leaves}
          /\ \A l \in leaves, m \in leaves' :
                l.id = m.id =>
                  /\ [m EXCEPT !.status = l.status] = l
                  /\ l.id # req'.id => m = l
      ]_vars

\* an admin approved the first leave of the registered user while a second
\* leave stayed PENDING
C28_Witness ==
    /\ req.op = "PUT /leaves/:id/approve"
    /\ resp.status = 200
    /\ req.token.payload.sub = SeedAdmin.id
    /\ \E l, m \in leaves :
          /\ l.id = req.id /\ l.status = APPROVED /\ l.userId = SeedUser.id
          /\ m.id # req.id /\ m.status = PENDING

\* C27: tokens are stateless. A request with an issued token, at any time
\* strictly before the token's expiry, is authenticated whatever has become
\* of the user (role changed, user deleted), and on an admin-only route it
\* is refused with 403 exactly when the role in the token is not admin: the
\* stored role plays no part.
C27_Stateless ==
    [][ ( /\ now' = now
          /\ req'.op \in ProtectedRoutes
          /\ req'.token \in tokens'
          /\ now < req'.token.payload.exp ) =>
          /\ resp'.status # 401
          /\ req'.op \in UserRoutes \cup StatusRoutes =>
                (resp'.status = 403 <=> req'.token.payload.role # ADMIN)
          /\ RequestUser(req'.token, now) =
                [userId |-> req'.token.payload.sub, role |-> req'.token.payload.role]
      ]_vars

\* after time has passed, the token issued to the admin was accepted on an
\* admin-only route although the stored role of that user is now user
C27_Witness ==
    /\ req.op = "GET /users"
    /\ resp.status = 200
    /\ now > 0
    /\ req.token.payload.role = ADMIN
    /\ \E u \in users : u.id = req.token.payload.sub /\ u.role = USER

\* C29: approve and reject in a race. Each request that passed the guards
\* is applied as one update by id, whatever the status is at that moment,
\* and is answered 200; the leave then holds the status this request wrote,
\* so the final status is that of the update applied last. No leave ever
\* holds a status other than PENDING and the two requested.
C29_LastWriteWins ==
    [][ /\ ( /\ req'.op \in RaceRoutes
             /\ resp'.status \notin {0, 401, 403} ) =>
              /\ resp'.status = 200
              /\ \A l \in leaves' : l.id = req'.id => l.status = RouteStatus(req'.op)
              /\ \A l \in leaves, m \in leaves' :
                    (l.id = m.id /\ l.id # req'.id) => m = l
        /\ \A l \in leaves' : l.status \in {PENDING, APPROVED, REJECTED}
      ]_vars

\* an approve was applied to a leave while a reject of the same leave,
\* past the guards, waits for its update
C29_Witness ==
    /\ req.op = "PUT /leaves/:id/approve"
    /\ resp.status = 200
    /\ \E l \in leaves : l.id = req.id /\ l.status = APPROVED
    /\ \E s \in DOMAIN inflight :
          /\ inflight[s].kind = "status"
          /\ inflight[s].request.op = "PUT /leaves/:id/reject"
          /\ inflight[s].request.id = req.id

\* C30: a create-leave request whose token still verifies but whose subject
\* is no longer a stored user is not answered 201 and stores no leave; and
\* after every step, whatever the order of deletes and creates, the owner
\* of every stored leave is a stored user.
C30_NoLeaveOfDeletedUser ==
    [][ /\ ( /\ req'.op = "POST /leaves"
             /\ now' = now
             /\ JwtStrategy_verify(req'.token, now)
             /\ UserById(req'.token.payload.sub) = {} ) =>
              /\ resp'.status # 201
              /\ leaves' = leaves
        /\ \A l \in leaves' : \E u \in users' : u.id = l.userId
      ]_vars

\* a valid create-leave body sent with the unexpired token of a deleted
\* user: the insert fails on the foreign key
C30_Witness ==
    /\ req.op = "POST /leaves"
    /\ req.body = ValidLeave
    /\ JwtStrategy_verify(req.token, now)
    /\ UserById(req.token.payload.sub) = {}
    /\ resp.status = 500

====
